---- MODULE Spec2Model ----
(***************************************************************************)
(* Youtube-Whisper, app.py: the URL validator, the model cache, and the    *)
(* orchestration get_video_info_and_transcribe, run by up to two Gradio    *)
(* worker threads that share the cache `models`, the audio files and the   *)
(* output file transcription.txt.                                          *)
(*                                                                         *)
(* Text (URLs, transcriptions, file content) is a sequence of one-         *)
(* character strings, so that the regular expression and the file writes   *)
(* act on characters.                                                      *)
(***************************************************************************)
EXTENDS Integers, Sequences, FiniteSets, TLC

VARIABLES
    models,             \* app.py:13  the global model cache, size -> handle
    audio_files,        \* the audio paths that exist on disk
    transcription_txt,  \* the file "transcription.txt": [exists, content]
    run,                \* per worker thread: the frame of get_video_info_and_transcribe
    loader,             \* history: whisper.load_model invocations and returns per size
    started,            \* number of requests the Presentation Layer has triggered
    url_in,             \* validator harness: the candidate URL
    url_out             \* validator harness: "unset", or the validator's verdict

vars == <<models, audio_files, transcription_txt, run, loader, started, url_in, url_out>>

-----------------------------------------------------------------------------
(* Bounds *)

\* requests triggered over the life of the process
MaxRuns == 2

\* worker threads that may run the handler at the same time
Runs == {1, 2}

-----------------------------------------------------------------------------
(* Text helpers *)

StartsWith(s, p) == Len(s) >= Len(p) /\ SubSeq(s, 1, Len(p)) = p

Drop(s, n) == SubSeq(s, n + 1, Len(s))

\* the remainders left after matching the literal p at the head of a remainder in S
Lit(p, S) == {Drop(s, Len(p)) : s \in {t \in S : StartsWith(t, p)}}

\* ( p1 | p2 | ... )?  -- the group may also match nothing
Opt(ps, S) == S \cup UNION {Lit(p, S) : p \in ps}

NL == "\n"

-----------------------------------------------------------------------------
(* URL parts *)

Http     == <<"h", "t", "t", "p", ":", "/", "/">>
Https    == <<"h", "t", "t", "p", "s", ":", "/", "/">>
Www      == <<"w", "w", "w", ".">>
Slash    == <<"/">>
Dot      == <<".">>
Youtu    == <<"y", "o", "u", "t", "u">>
Be       == <<"b", "e">>
YoutubeCom  == <<"y", "o", "u", "t", "u", "b", "e", ".", "c", "o", "m">>
YoutuBe     == <<"y", "o", "u", "t", "u", ".", "b", "e">>
Youtube     == <<"y", "o", "u", "t", "u", "b", "e">>
YoutuBeDot  == <<"y", "o", "u", "t", "u", ".", "b", "e", ".">>
MYoutubeCom == <<"m", ".", "y", "o", "u", "t", "u", "b", "e", ".", "c", "o", "m">>
ExampleCom  == <<"e", "x", "a", "m", "p", "l", "e", ".", "c", "o", "m">>

Schemes == {<<>>, Http, Https}
Prefixes == {<<>>, Www}
GoodHosts == {YoutubeCom, YoutuBe}
Hosts == GoodHosts \cup {Youtube, YoutuBeDot, MYoutubeCom, ExampleCom}
\* paths are single-line, as the URL text box is (app.py:104)
Paths == {<<>>, <<"a">>, <<"w", "a", "t", "c", "h", "?", "v", "=", "a">>, <<"a", "/", "b">>}

\* a URL and the parts it was built from
UrlParts == [scheme : Schemes, www : Prefixes, host : Hosts, path : Paths]

UrlOf(p) == p.scheme \o p.www \o p.host \o Slash \o p.path

-----------------------------------------------------------------------------
(* app.py:15-22  is_valid_youtube_url *)

\* `.+$` : one or more characters other than newline, up to the end of the
\* string or up to a single newline that ends the string
DotPlusEnd(r) ==
    \E n \in 1..Len(r) :
        /\ \A i \in 1..n : r[i] # NL
        /\ \/ n = Len(r)
           \/ n = Len(r) - 1 /\ r[Len(r)] = NL

\* (youtube\.com|youtu\.?be)
HostAlternation(S) == Lit(YoutubeCom, S) \cup Lit(Be, Opt({Dot}, Lit(Youtu, S)))

\* ^(https?://)?(www\.)?(youtube\.com|youtu\.?be)/.+$
is_valid_youtube_url(url) ==
    \E r \in Lit(Slash, HostAlternation(Opt({Www}, Opt({Http, Https}, {url})))) :
        DotPlusEnd(r)

-----------------------------------------------------------------------------
(* Values *)

\* Python's None, where a string is expected
None == "<None>"

\* app.py:81  `not audio_path` holds of None and of the empty string
Falsy == {None, ""}

\* app.py:38, 43, 47  the messages download_video_info returns as the title
InvalidUrlMsg     == "Invalid YouTube URL."
DownloadFailedMsg == "Failed to download audio."
DownloadErrorMsg  == "An error occurred while downloading the video."

\* app.py:74  "An error occurred during transcription."
TranscriptionErrorMsg ==
    <<"A", "n", " ", "e", "r", "r", "o", "r", " ", "o", "c", "c", "u", "r", "r",
      "e", "d", " ", "d", "u", "r", "i", "n", "g", " ", "t", "r", "a", "n", "s",
      "c", "r", "i", "p", "t", "i", "o", "n", ".">>

\* app.py:88
transcription_file == "transcription.txt"

\* app.py:112  two of the five choices of the model size dropdown
Sizes == {"tiny", "base"}

\* what the Audio Fetcher can hand back on success
Videos ==
    {[audio_path |-> "a.mp3", title |-> "T1", thumbnail_url |-> "th1"],
     [audio_path |-> "b.mp3", title |-> "T2", thumbnail_url |-> "th2"]}

NoVideo == [audio_path |-> None, title |-> None, thumbnail_url |-> None]

\* app.py:41  the outcomes of download_mp3_yt_dlp: a video with its audio on
\* disk, a tuple without an audio path, or an exception
FetchAttempts ==
    [kind : {"ok"}, video : Videos]
        \cup [kind : {"empty"},
              video : {[audio_path |-> "", title |-> "T1", thumbnail_url |-> "th1"]}]
        \cup [kind : {"raise"}, video : {NoVideo}]

\* the texts model.transcribe can return
Texts == {<<"x">>, <<"y", "z">>}

\* app.py:70  the outcomes of model.transcribe: a text, or an exception
TranscribeAttempts == [ok : {TRUE}, text : Texts] \cup [ok : {FALSE}, text : {<<>>}]

\* the URLs the requests of the process are made with
RunUrls ==
    {UrlOf([scheme |-> Https, www |-> Www, host |-> YoutubeCom,
            path |-> <<"w", "a", "t", "c", "h", "?", "v", "=", "a">>]),
     UrlOf([scheme |-> Https, www |-> <<>>, host |-> ExampleCom, path |-> <<"a">>])}

NoModel == [size |-> "none", id |-> 0]

Ret(t, th, tr, f) == [title |-> t, thumbnail |-> th, transcription |-> tr, file |-> f]

NoRet == Ret(None, None, <<>>, None)

\* a worker thread with no request
IdleFrame ==
    [pc |-> "idle", youtube_url |-> <<>>, model_size |-> "none",
     audio_path |-> None, title |-> None, thumbnail_url |-> None,
     loaded |-> NoModel, model |-> NoModel, transcription |-> <<>>, ret |-> NoRet,
     \* history of the run
     progress |-> <<>>, steps |-> <<>>, fetch |-> "none", fetched |-> NoVideo,
     fault |-> "none", heard |-> <<>>, used |-> NoModel, interfered |-> FALSE]

Busy(r) == run[r].pc \notin {"idle", "done", "raised"}

-----------------------------------------------------------------------------
(* Initial state: app.py:13, a fresh process that has written no transcription *)

Init ==
    /\ models = <<>>
    /\ audio_files = {}
    /\ transcription_txt = [exists |-> FALSE, content |-> <<>>]
    /\ run = [r \in Runs |-> IdleFrame]
    /\ loader = [s \in Sizes |-> [calls |-> 0, returns |-> 0]]
    /\ started = 0
    /\ url_in = <<>>
    /\ url_out = "unset"

-----------------------------------------------------------------------------
(* app.py:145-149  the button's click runs the handler on a worker thread *)

Start(r) ==
    /\ ~Busy(r)
    /\ started < MaxRuns
    /\ \E u \in RunUrls, s \in Sizes :
          run' = [run EXCEPT ![r] = [IdleFrame EXCEPT !.pc = "validate",
                                                      !.youtube_url = u,
                                                      !.model_size = s]]
    /\ started' = started + 1
    /\ UNCHANGED <<models, audio_files, transcription_txt, loader, url_in, url_out>>

\* the run returns `ret` to the Presentation Layer
Returned(f, ret) == [f EXCEPT !.pc = "done", !.ret = ret, !.steps = Append(@, "return")]

\* mutant: the verdict of the validator is ignored
ValidatedNoCheck(f) ==
    [f EXCEPT !.pc = "fetch", !.progress = Append(@, 0), !.steps = Append(@, "validate")]

\* app.py:79-82 with 37-38  progress(0), the validator, the return on a rejected URL
Validated(f) ==
    LET g == [f EXCEPT !.progress = Append(@, 0), !.steps = Append(@, "validate")]
    IN  IF is_valid_youtube_url(f.youtube_url)
        THEN [g EXCEPT !.pc = "fetch"]
        ELSE Returned(g, Ret(InvalidUrlMsg, None, <<>>, None))

Validate(r) ==
    /\ run[r].pc = "validate"
    /\ run' = [run EXCEPT ![r] = Validated(@)]
    /\ UNCHANGED <<models, audio_files, transcription_txt, loader, started, url_in, url_out>>

\* mutant: the check of app.py:42 for a missing audio path is left out
FetchResultNoPathCheck(attempt) ==
    IF attempt.kind = "raise"
    THEN [audio_path |-> None, title |-> DownloadErrorMsg, thumbnail_url |-> None]
    ELSE attempt.video

\* app.py:40-47  what download_video_info returns for an outcome of the Fetcher
FetchResult(attempt) ==
    IF attempt.kind = "raise"
    THEN [audio_path |-> None, title |-> DownloadErrorMsg, thumbnail_url |-> None]
    ELSE IF attempt.video.audio_path \in Falsy
         THEN [audio_path |-> None, title |-> DownloadFailedMsg, thumbnail_url |-> None]
         ELSE attempt.video

\* mutant: a failed fetch is tried again
FetchedRetry(f, attempt) ==
    LET info == FetchResult(attempt)
        g == [f EXCEPT !.steps = Append(@, "fetch"), !.fetch = attempt.kind,
                       !.fetched = attempt.video,
                       !.audio_path = info.audio_path, !.title = info.title,
                       !.thumbnail_url = info.thumbnail_url]
    IN  IF info.audio_path \in Falsy
        THEN [g EXCEPT !.pc = "fetch"]
        ELSE [g EXCEPT !.pc = "check", !.progress = Append(@, 50)]

\* app.py:80-84  the frame after download_video_info returned `info`
Fetched(f, attempt) ==
    LET info == FetchResult(attempt)
        g == [f EXCEPT !.steps = Append(@, "fetch"), !.fetch = attempt.kind,
                       !.fetched = attempt.video,
                       !.audio_path = info.audio_path, !.title = info.title,
                       !.thumbnail_url = info.thumbnail_url]
    IN  IF info.audio_path \in Falsy
        THEN Returned(g, Ret(info.title, None, <<>>, None))
        ELSE [g EXCEPT !.pc = "check", !.progress = Append(@, 50)]

Fetch(r) ==
    /\ run[r].pc = "fetch"
    /\ \E attempt \in FetchAttempts :
          /\ run' = [run EXCEPT ![r] = Fetched(@, attempt)]
          /\ audio_files' = IF attempt.kind = "ok"
                            THEN audio_files \cup {attempt.video.audio_path}
                            ELSE audio_files
    /\ UNCHANGED <<models, transcription_txt, loader, started, url_in, url_out>>

-----------------------------------------------------------------------------
(* app.py:61-74  transcribe_audio, called at app.py:85 *)

\* mutant: no try/except, the fault leaves transcribe_audio and the handler
FaultedUncaught(f, k) == [f EXCEPT !.pc = "raised", !.fault = k]

\* app.py:72-74, 85  a fault of kind k is caught; the message is the transcription
Faulted(f, k) == [f EXCEPT !.pc = "open", !.fault = k, !.transcription = TranscriptionErrorMsg]

\* mutant: the model is loaded without looking into the cache
CheckCacheAlwaysLoad(r) ==
    /\ run[r].pc = "check"
    /\ run' = [run EXCEPT ![r].pc = "load"]
    /\ UNCHANGED <<models, audio_files, transcription_txt, loader, started, url_in, url_out>>

\* app.py:62  model_size not in models
CheckCache(r) ==
    /\ run[r].pc = "check"
    /\ run' = [run EXCEPT ![r].pc =
                  IF run[r].model_size \notin DOMAIN models THEN "load" ELSE "get"]
    /\ UNCHANGED <<models, audio_files, transcription_txt, loader, started, url_in, url_out>>

\* app.py:63  whisper.load_model(model_size): a fresh handle, or an exception
Load(r) ==
    /\ run[r].pc = "load"
    /\ LET s == run[r].model_size
           n == loader[s].calls + 1
           g == [run[r] EXCEPT !.steps = Append(@, "load")]
       IN  \E ok \in BOOLEAN :
              /\ loader' = [loader EXCEPT ![s] =
                               [calls |-> n, returns |-> @.returns + (IF ok THEN 1 ELSE 0)]]
              /\ run' = [run EXCEPT ![r] =
                            IF ok THEN [g EXCEPT !.pc = "store", !.loaded = [size |-> s, id |-> n]]
                                  ELSE Faulted(g, "load")]
    /\ UNCHANGED <<models, audio_files, transcription_txt, started, url_in, url_out>>

\* mutant: the cache is replaced by a cache of the one entry
CacheStoreReplace(m, k, h) == [x \in {k} |-> h]

\* app.py:63  models[model_size] = ...
CacheStore(m, k, h) == [x \in DOMAIN m \cup {k} |-> IF x = k THEN h ELSE m[x]]

Store(r) ==
    /\ run[r].pc = "store"
    /\ models' = CacheStore(models, run[r].model_size, run[r].loaded)
    /\ run' = [run EXCEPT ![r].pc = "get"]
    /\ UNCHANGED <<audio_files, transcription_txt, loader, started, url_in, url_out>>

\* app.py:64  model = models[model_size]  (a missing key is a KeyError, caught at 72)
GetModel(r) ==
    /\ run[r].pc = "get"
    /\ run' = [run EXCEPT ![r] =
                  IF run[r].model_size \in DOMAIN models
                  THEN [@ EXCEPT !.pc = "infer", !.model = models[run[r].model_size]]
                  ELSE Faulted(@, "key")]
    /\ UNCHANGED <<models, audio_files, transcription_txt, loader, started, url_in, url_out>>

\* app.py:70-71, 85  model.transcribe(audio_path) reads the audio file: it
\* raises when the file is gone, and otherwise returns a text or raises
Infer(r) ==
    /\ run[r].pc = "infer"
    /\ LET g == [run[r] EXCEPT !.steps = Append(@, "transcribe"), !.used = run[r].model]
       IN  \E attempt \in TranscribeAttempts :
              run' = [run EXCEPT ![r] =
                         IF attempt.ok /\ run[r].audio_path \in audio_files
                         THEN [g EXCEPT !.pc = "open", !.heard = attempt.text,
                                        !.transcription = attempt.text]
                         ELSE Faulted(g, "transcribe")]
    /\ UNCHANGED <<models, audio_files, transcription_txt, loader, started, url_in, url_out>>

-----------------------------------------------------------------------------
(* app.py:88-90  with open(transcription_file, "w") as f: f.write(transcription) *)

\* history: every other run that has opened the file is marked as interfered with
Touch(r, f) ==
    [q \in Runs |-> IF q = r THEN f
                    ELSE IF "open" \in {run[q].steps[i] : i \in 1..Len(run[q].steps)}
                         THEN [run[q] EXCEPT !.interfered = TRUE]
                         ELSE run[q]]

\* mutant: the file is opened without truncation
OpenKeep(r) ==
    /\ run[r].pc = "open"
    /\ transcription_txt' = [exists |-> TRUE, content |-> transcription_txt.content]
    /\ run' = Touch(r, [run[r] EXCEPT !.pc = "write", !.steps = Append(@, "open"),
                                      !.interfered = FALSE])
    /\ UNCHANGED <<models, audio_files, loader, started, url_in, url_out>>

\* app.py:89  open(..., "w") creates the file or truncates it
OpenTrunc(r) ==
    /\ run[r].pc = "open"
    /\ transcription_txt' = [exists |-> TRUE, content |-> <<>>]
    /\ run' = Touch(r, [run[r] EXCEPT !.pc = "write", !.steps = Append(@, "open"),
                                      !.interfered = FALSE])
    /\ UNCHANGED <<models, audio_files, loader, started, url_in, url_out>>

\* mutant: the text never reaches the file
WriteLost(content, text) == content

\* the buffered text is written at offset 0 of the open file: it replaces the
\* head of what the file holds now
WriteAt0(content, text) == text \o Drop(content, Len(text))

\* app.py:90  f.write(transcription) and the close that flushes it
WriteClose(r) ==
    /\ run[r].pc = "write"
    /\ transcription_txt' = [exists |-> TRUE,
                             content |-> WriteAt0(transcription_txt.content, run[r].transcription)]
    /\ run' = Touch(r, [run[r] EXCEPT !.pc = "exists", !.steps = Append(@, "write")])
    /\ UNCHANGED <<models, audio_files, loader, started, url_in, url_out>>

-----------------------------------------------------------------------------
(* app.py:93-97  cleanup, progress(100), return *)

\* app.py:96-97
Finished(f) ==
    Returned([f EXCEPT !.progress = Append(@, 100)],
             Ret(f.title, f.thumbnail_url, f.transcription, transcription_file))

\* app.py:93  os.path.exists(audio_path)
ExistsCheck(r) ==
    /\ run[r].pc = "exists"
    /\ LET g == [run[r] EXCEPT !.steps = Append(@, "cleanup")]
       IN  run' = [run EXCEPT ![r] =
                      IF run[r].audio_path \in audio_files
                      THEN [g EXCEPT !.pc = "remove"]
                      ELSE Finished(g)]
    /\ UNCHANGED <<models, audio_files, transcription_txt, loader, started, url_in, url_out>>

\* app.py:94  os.remove(audio_path): FileNotFoundError when the file is gone,
\* which nothing catches
Remove(r) ==
    /\ run[r].pc = "remove"
    /\ run' = [run EXCEPT ![r] =
                  IF run[r].audio_path \in audio_files
                  THEN Finished([@ EXCEPT !.steps = Append(@, "remove")])
                  ELSE [@ EXCEPT !.pc = "raised"]]
    /\ audio_files' = audio_files \ {run[r].audio_path}
    /\ UNCHANGED <<models, transcription_txt, loader, started, url_in, url_out>>

-----------------------------------------------------------------------------
(* Specifications *)

Step(r) ==
    \/ Validate(r)
    \/ Fetch(r)
    \/ CheckCache(r)
    \/ Load(r)
    \/ Store(r)
    \/ GetModel(r)
    \/ Infer(r)
    \/ OpenTrunc(r)
    \/ WriteClose(r)
    \/ ExistsCheck(r)
    \/ Remove(r)

\* requests may overlap: each runs on its own worker thread
Next == \E r \in Runs : Start(r) \/ Step(r)

Spec == Init /\ [][Next]_vars

\* one request at a time: a request starts when no other is running
StartAlone(r) == (\A q \in Runs : ~Busy(q)) /\ Start(r)

NextSeq == \E r \in Runs : StartAlone(r) \/ Step(r)

SpecSeq == Init /\ [][NextSeq]_vars

\* the validator applied to every URL built from the parts
InitUrl ==
    /\ models = <<>>
    /\ audio_files = {}
    /\ transcription_txt = [exists |-> FALSE, content |-> <<>>]
    /\ run = [r \in Runs |-> IdleFrame]
    /\ loader = [s \in Sizes |-> [calls |-> 0, returns |-> 0]]
    /\ started = 0
    /\ url_in \in UrlParts
    /\ url_out = "unset"

CheckUrl ==
    /\ url_out = "unset"
    /\ url_out' = IF is_valid_youtube_url(UrlOf(url_in)) THEN "valid" ELSE "invalid"
    /\ UNCHANGED <<models, audio_files, transcription_txt, run, loader, started, url_in>>

SpecUrl == InitUrl /\ [][CheckUrl]_vars

-----------------------------------------------------------------------------
(* Properties *)

Has(f, e) == \E i \in 1..Len(f.steps) : f.steps[i] = e

Done(r) == run[r].pc = "done"

\* the run of r returns in this step
ReturnsNow(r) == run[r].pc # "done" /\ run'[r].pc = "done"

\* the Fetcher and the Transcriber both succeeded in the run of frame f
Succeeded(f) == f.fetch = "ok" /\ f.fault = "none" /\ Has(f, "transcribe")

\* the URLs of the requests that is_valid_youtube_url rejects
Rejected == {u \in RunUrls : ~is_valid_youtube_url(u)}

\* C1: a run whose URL the validator rejects never calls the Fetcher, the
\* loader or model.transcribe, and once validation has run it has returned
\* ("Invalid YouTube URL.", None, "", None).
C1_InvalidUrl ==
    \A r \in Runs :
        (run[r].pc # "idle" /\ run[r].youtube_url \in Rejected) =>
            /\ ~Has(run[r], "fetch") /\ ~Has(run[r], "load") /\ ~Has(run[r], "transcribe")
            /\ run[r].pc \in {"validate", "done"}
            /\ Done(r) => run[r].ret = Ret(InvalidUrlMsg, None, <<>>, None)

C1_Witness ==
    \E r \in Runs : Done(r) /\ run[r].youtube_url \in Rejected

\* C2: when the Fetcher raises or hands back no audio path, the run has
\* returned (message, None, "", None) with the message of that failure, and
\* neither the loader nor model.transcribe was called.
C2_FetchFailure ==
    \A r \in Runs :
        run[r].fetch \in {"empty", "raise"} =>
            /\ run[r].youtube_url \in RunUrls \ Rejected
            /\ Done(r)
            /\ run[r].ret = Ret(IF run[r].fetch = "raise" THEN DownloadErrorMsg
                                                         ELSE DownloadFailedMsg,
                                None, <<>>, None)
            /\ ~Has(run[r], "load") /\ ~Has(run[r], "transcribe")

C2_Witness ==
    \E r, q \in Runs :
        /\ Done(r) /\ run[r].fetch = "raise"
        /\ Done(q) /\ run[q].fetch = "empty" /\ run[q].fetched.title = "T1"

\* what a run returns after Fetcher and Transcriber succeeded
C3_Returns ==
    \A r \in Runs :
        (Done(r) /\ Succeeded(run[r])) =>
            run[r].ret = Ret(run[r].fetched.title, run[r].fetched.thumbnail_url,
                             run[r].heard, transcription_file)

\* what transcription.txt holds in the step in which such a run returns
C3_FileAtReturn ==
    \A r \in Runs :
        (ReturnsNow(r) /\ Succeeded(run'[r])) =>
            transcription_txt' = [exists |-> TRUE, content |-> run'[r].heard]

\* C3: with one request at a time, a run in which Fetcher and Transcriber
\* succeed returns the Fetcher's title and thumbnail, the Transcriber's text
\* and "transcription.txt", and at its return the file holds exactly that text.
C3_SuccessAlone == [](C3_Returns) /\ [][C3_FileAtReturn]_vars

\* a shorter text has replaced a longer one written by the run before
C3_Witness ==
    \E r, q \in Runs :
        /\ r # q /\ Done(r) /\ Done(q)
        /\ Succeeded(run[r]) /\ Succeeded(run[q])
        /\ run[q].heard = <<"y", "z">> /\ run[r].heard = <<"x">>
        /\ transcription_txt.content = <<"x">>

\* C4 as stated: the loader is invoked at most once per size, and exactly
\* once for a size once a transcribe_audio call with that size has returned.
C4_LoadedOnce ==
    \A s \in Sizes :
        /\ loader[s].calls <= 1
        /\ (\E r \in Runs : run[r].model_size = s /\ Has(run[r], "open")) =>
               loader[s].calls = 1

\* C4 amended: with one request at a time the loader returns a model at most
\* once per size, the cache entry is the handle of the last invocation (the
\* loader is never invoked for a size again after it returned a model), and
\* every earlier invocation for that size raised.
C4_LoadedOnceOk ==
    \A s \in Sizes :
        /\ loader[s].returns <= 1
        /\ s \in DOMAIN models =>
               /\ models[s] = [size |-> s, id |-> loader[s].calls]
               /\ loader[s].returns = 1
        /\ (loader[s].returns = 1 /\ s \notin DOMAIN models) =>
               \E r \in Runs : run[r].pc = "store"
                               /\ run[r].loaded = [size |-> s, id |-> loader[s].calls]

\* two calls with the same size: the second used the handle the first loaded
C4_Witness ==
    \E r, q \in Runs :
        /\ r # q /\ Has(run[r], "transcribe") /\ Has(run[q], "transcribe")
        /\ run[r].used = run[q].used
        /\ Has(run[r], "load") /\ ~Has(run[q], "load")
        /\ loader[run[r].model_size] = [calls |-> 1, returns |-> 1]

\* the audio file exists from the Fetcher's return to the cleanup step
C5_Interval ==
    \A r \in Runs :
        run[r].pc \in {"check", "load", "store", "get", "infer", "open", "write", "exists"} =>
            run[r].audio_path \in audio_files

\* the audio file does not exist in the step in which the run returns
C5_GoneAtReturn ==
    \A r \in Runs :
        (ReturnsNow(r) /\ run'[r].fetch = "ok") => run'[r].audio_path \notin audio_files'

\* C5: the audio file exists from the Fetcher's return to the cleanup step,
\* and it does not exist when the run returns, whether or not the
\* transcription succeeded.
C5_AudioFile == [](C5_Interval) /\ [][C5_GoneAtReturn]_vars

\* the message of app.py:74 as it would read in the title field
TranscriptionErrorTitle == "An error occurred during transcription."

\* C6 as stated: after each kind of failure the run returns normally and the
\* failure message is the returned title.
C6_MessageInTitle ==
    \A r \in Runs :
        (Done(r) /\ ~Succeeded(run[r])) =>
            run[r].ret.title \in {InvalidUrlMsg, DownloadFailedMsg, DownloadErrorMsg,
                                  TranscriptionErrorTitle}

\* C6 amended: no fault leaves the call that met it.  A rejected URL and a
\* failed fetch end the run with the message as the title; a fault of the
\* loader or of model.transcribe makes transcribe_audio return the message,
\* which the run writes to the file and returns as the transcription, next
\* to the Fetcher's title and thumbnail.
C6_FaultsCaught ==
    \A r \in Runs :
        /\ (Has(run[r], "validate") /\ run[r].youtube_url \in Rejected) =>
               Done(r) /\ run[r].ret.title = InvalidUrlMsg
        /\ run[r].fetch \in {"empty", "raise"} =>
               Done(r) /\ run[r].ret.title \in {DownloadFailedMsg, DownloadErrorMsg}
        /\ run[r].fault # "none" =>
               /\ run[r].transcription = TranscriptionErrorMsg
               /\ run[r].pc \in {"open", "write", "exists", "remove", "done", "raised"}
               /\ run[r].pc = "raised" => Has(run[r], "cleanup")
               /\ Done(r) => run[r].ret = Ret(run[r].fetched.title,
                                               run[r].fetched.thumbnail_url,
                                               TranscriptionErrorMsg, transcription_file)

\* a failed load and a failed transcription, both returned
C6_Witness ==
    \E r, q \in Runs :
        /\ Done(r) /\ run[r].fault = "load"
        /\ Done(q) /\ run[q].fault = "transcribe" /\ run[q].audio_path \notin audio_files
        /\ transcription_txt.content = TranscriptionErrorMsg

\* C7: the validator accepts exactly the URLs whose host is youtube.com or
\* youtu.be and whose path is not empty.
C7_ExactHosts ==
    url_out # "unset" =>
        (url_out = "valid" <=> (url_in.host \in GoodHosts /\ url_in.path # <<>>))

C9_UsesLoaded ==
    \A r \in Runs :
        Has(run[r], "transcribe") =>
            /\ run[r].used.size = run[r].model_size
            /\ run[r].used.id \in 1..loader[run[r].model_size].calls

\* no step removes a key of the cache
C9_KeysStay == DOMAIN models \subseteq DOMAIN models'

\* C9: with overlapping calls the cache still only gains keys, and
\* model.transcribe is only ever called on a handle the loader returned for
\* the requested size (the duplicated load and the replaced entry are
\* C9_Witness).
C9_CacheRace == [](C9_UsesLoaded) /\ [][C9_KeysStay]_vars

\* the loader returned twice for one size; r stored and read its own handle,
\* and the entry is now the handle q loaded
C9_Witness ==
    \E r, q \in Runs : \E s \in Sizes :
        /\ r # q /\ run[r].model_size = s /\ run[q].model_size = s
        /\ loader[s] = [calls |-> 2, returns |-> 2]
        /\ run[r].used = run[r].loaded /\ run[r].loaded.size = s
        /\ run[q].loaded.size = s /\ run[q].loaded # run[r].loaded
        /\ s \in DOMAIN models /\ models[s] = run[q].loaded

\* the steps of a run, in the order the handler takes them
Rank(e) ==
    CASE e = "validate" -> 1 [] e = "fetch" -> 2 [] e = "load" -> 3
      [] e = "transcribe" -> 4 [] e = "open" -> 5 [] e = "write" -> 6
      [] e = "cleanup" -> 7 [] e = "remove" -> 8 [] e = "return" -> 9

IsPrefix(s, t) == Len(s) <= Len(t) /\ SubSeq(t, 1, Len(s)) = s

\* C10: the steps of a run are taken in the order validate, fetch, (load,)
\* transcribe, write, cleanup, return, each at most once; each step follows
\* the success of the one before; progress is 0, then 50 after a successful
\* fetch, then 100 after cleanup.
C10_LinearOrder ==
    \A r \in Runs :
        LET f == run[r] IN
        /\ \A i \in 1..(Len(f.steps) - 1) : Rank(f.steps[i]) < Rank(f.steps[i + 1])
        /\ Has(f, "fetch") => Has(f, "validate") /\ f.youtube_url \in RunUrls \ Rejected
        /\ (Has(f, "load") \/ Has(f, "transcribe")) => Has(f, "fetch") /\ f.fetch = "ok"
        /\ Has(f, "open") => (Has(f, "transcribe") \/ f.fault \in {"load", "key"})
        /\ Has(f, "write") => Has(f, "open")
        /\ Has(f, "cleanup") => Has(f, "write")
        /\ Has(f, "remove") => Has(f, "cleanup")
        /\ IsPrefix(f.progress, <<0, 50, 100>>)
        /\ (f.pc # "idle") => (Len(f.progress) >= 1 <=> Has(f, "validate"))
        /\ Len(f.progress) >= 2 <=> (Has(f, "fetch") /\ f.fetch = "ok")
        /\ Len(f.progress) = 3 <=> (Has(f, "cleanup") /\ f.pc = "done")

C10_Witness ==
    \E r \in Runs :
        /\ run[r].steps = <<"validate", "fetch", "load", "transcribe", "open", "write",
                            "cleanup", "remove", "return">>
        /\ run[r].progress = <<0, 50, 100>>

====
